---- MODULE Spec2Model ----
(***************************************************************************)
(* Model of duckdb_flyway.MigrationsService (src/src/duckdb_flyway/        *)
(* duckdb_flyway.py): the record table _migrations, the ordering check,    *)
(* the transactional apply protocol and the run_migrations loop, over a    *)
(* DuckDB connection with explicit begin / commit / rollback.              *)
(*                                                                         *)
(* Migration ids are strings in the program and are compared with Python's *)
(* str order; here they are drawn from 1..MaxId and the integer order      *)
(* stands for that order.                                                  *)
(***************************************************************************)
EXTENDS Integers, Sequences, FiniteSets, TLC

MaxId == 3
MaxLen == 2
MaxCalls == 2

Ids == 1..MaxId

\* Migration(id, run): run either completes ("ok") or issues a statement and
\* then raises an Exception ("fail").
Migration == [id : Ids, run : {"ok", "fail"}]

NoMigration == [id |-> 0, run |-> "none"]

\* Candidate collections: lists of at most MaxLen migrations, in any order,
\* ids may repeat.
Candidates == UNION {[1..n -> Migration] : n \in 0..MaxLen}

\* The single-writer specification drives connection "c1" only.
Conns == {"c1", "c2"}

VARIABLES
    db,         \* committed database: [tbl, rows, effects]
    pc,         \* per connection: position in run_migrations / apply_migration
    mode,       \* per connection: the engine call in progress (or last made)
    txn,        \* per connection: a transaction is open
    pend,       \* per connection: uncommitted changes of the open transaction
    migrations, \* per connection: run_migrations' argument
    applied,    \* per connection: run_migrations' local set
    todo,       \* per connection: rest of the sorted list the loop iterates
    cur,        \* per connection: apply_migration's argument
    exc,        \* per connection: exception in flight, outermost first
    last,       \* per connection: how the last call ended
    log,        \* history: the connection calls made by the current call
    db0,        \* history: the database as the current call found it
    pre,        \* history: the database as the current apply_migration found it
    runCount,   \* history: invocations of each migration's run
    calls,      \* history: engine calls made so far
    direct,     \* history: the application has called apply_migration itself
    repeated,   \* history: run_migrations was handed a collection repeating an id
    vres        \* a direct validate_migration_order call and its outcome

vars == <<db, pc, mode, txn, pend, migrations, applied, todo, cur, exc, last,
          log, db0, pre, runCount, calls, direct, repeated, vres>>

----------------------------------------------------------------------------
(* The database connection.                                                *)

EmptyDb == [tbl |-> FALSE, rows |-> <<>>, effects |-> <<>>]
EmptyPend == [tbl |-> FALSE, rows |-> <<>>, effects |-> <<>>, caller |-> FALSE]

CreateTable == [tbl |-> TRUE, rows |-> <<>>, effects |-> <<>>]
InsertRow(id) == [tbl |-> FALSE, rows |-> <<id>>, effects |-> <<>>]
Statements(m) == [tbl |-> FALSE, rows |-> <<>>, effects |-> <<m>>]

Add(d, x) ==
    [d EXCEPT !.tbl = @ \/ x.tbl, !.rows = @ \o x.rows,
              !.effects = @ \o x.effects]

\* What a statement on connection c sees: the committed database and the
\* changes of c's own open transaction.
Visible(c) == Add(db, pend[c])

Range(s) == {s[i] : i \in DOMAIN s}

\* The ids of a list of migrations, in its order.
IdsOf(ms) == [i \in DOMAIN ms |-> ms[i].id]

\* con.execute(statement): inside an open transaction the change is pending,
\* otherwise DuckDB autocommits it.
execute(c, change) ==
    IF txn[c]
    THEN /\ pend' = [pend EXCEPT ![c] = Add(@, change)]
         /\ UNCHANGED db
    ELSE /\ db' = Add(db, change)
         /\ UNCHANGED pend

Exc(type, origin, id) == [type |-> type, origin |-> origin, id |-> id]

\* A logged connection call: res is "ok", "error" (the call raised an
\* Exception) or "interrupt" (a KeyboardInterrupt was delivered during it).
Ev(op, m, res) == [op |-> op, m |-> m, res |-> res]

Res(ok) == IF ok THEN "ok" ELSE "error"

Logged(c, e) == log' = [log EXCEPT ![c] = Append(@, e)]

----------------------------------------------------------------------------
(* Pure parts of MigrationsService.                                        *)

max(S) == CHOOSE x \in S : \A y \in S : y <= x

\* Variant: the ordering check never raises.
validate_never_raises(ms, app) == TRUE

\* Variant: the applied migrations are not filtered out before comparing.
validate_unfiltered(ms, app) ==
    IF app = {}
    THEN TRUE
    ELSE ~ \E i \in DOMAIN ms : ms[i].id < max(app)

\* validate_migration_order: TRUE when it returns, FALSE when it raises.
validate_migration_order(ms, app) ==
    IF app = {}
    THEN TRUE
    ELSE LET max_applied == max(app)
             new_migrations == SelectSeq(ms, LAMBDA m : m.id \notin app)
         IN ~ \E i \in DOMAIN new_migrations :
                  new_migrations[i].id < max_applied

\* Variant: the loop iterates the collection in the order given.
unsorted(ms) == ms

\* sorted(migrations, key=lambda m: m.id): a stable sort.
RECURSIVE sorted(_)
sorted(ms) ==
    IF ms = <<>>
    THEN <<>>
    ELSE LET n == Len(ms)
             x == ms[n]
             s == sorted(SubSeq(ms, 1, n - 1))
             k == Cardinality({i \in DOMAIN s : s[i].id <= x.id})
         IN SubSeq(s, 1, k) \o <<x>> \o SubSeq(s, k + 1, Len(s))

\* Variant: the applied-set check is missing from the loop.
never_skipped(m, app) == TRUE

\* "if migration.id not in applied"
not_in_applied(m, app) == m.id \notin app

\* "except Exception": KeyboardInterrupt is a BaseException and passes through.
except_Exception(e) == e.type # "KeyboardInterrupt"

\* Variant: the explicit begin is missing, statements autocommit.
begin_missing(open) == open

\* con.begin() on a connection with no open transaction opens one.
begin(open) == TRUE

\* Variant: the id column is not a primary key.
no_primary_key(id, v) == TRUE

\* INSERT INTO _migrations (id) VALUES (?) against id TEXT PRIMARY KEY.
primary_key_free(id, v) == id \notin Range(v.rows)

\* Variant: the loop swallows the exception and goes on to the next migration.
apply_raised_continue == "loop"

\* An exception that leaves apply_migration inside run_migrations' try block
\* leaves the for loop and enters run_migrations' handler.
apply_raised_in_run == "run_except"

\* raise MigrationError(f"Migration {migration.id} failed: ...") from e
apply_error(id, chain) == <<Exc("MigrationError", "apply", id)>> \o chain

\* Variant: the handler re-raises the exception as it is.
run_reraise(chain) == chain

\* raise MigrationError("Failed to run migrations") from e
run_error(chain) == <<Exc("MigrationError", "run_migrations", 0)>> \o chain

----------------------------------------------------------------------------
(* How a call ends.                                                        *)

Returns(c) ==
    /\ pc' = [pc EXCEPT ![c] = "idle"]
    /\ last' = [last EXCEPT ![c] = [kind |-> "returned", exc |-> <<>>]]
    /\ exc' = [exc EXCEPT ![c] = <<>>]

Raises(c, chain) ==
    /\ pc' = [pc EXCEPT ![c] = "idle"]
    /\ last' = [last EXCEPT ![c] = [kind |-> "raised", exc |-> chain]]
    /\ exc' = [exc EXCEPT ![c] = <<>>]

\* apply_migration returns to its caller.
ApplyReturns(c) ==
    IF mode[c] = "run"
    THEN /\ pc' = [pc EXCEPT ![c] = "loop"]
         /\ UNCHANGED <<last, exc>>
    ELSE Returns(c)

\* An exception leaves apply_migration.
ApplyRaises(c, chain) ==
    IF mode[c] = "run" /\ except_Exception(Head(chain))
    THEN /\ pc' = [pc EXCEPT ![c] = apply_raised_in_run]
         /\ exc' = [exc EXCEPT ![c] = chain]
         /\ UNCHANGED last
    ELSE Raises(c, chain)

\* An exception is raised inside apply_migration's try block.
RaisedInApplyTry(c, e) ==
    IF except_Exception(e)
    THEN /\ pc' = [pc EXCEPT ![c] = "rollback"]
         /\ exc' = [exc EXCEPT ![c] = <<e>>]
         /\ UNCHANGED last
    ELSE ApplyRaises(c, <<e>>)

\* The ids of a collection are pairwise distinct.
DistinctIds(ms) == \A i, j \in DOMAIN ms : i # j => ms[i].id # ms[j].id

Snapshot(c) == [db |-> db, pend |-> pend[c], txn |-> txn[c]]

----------------------------------------------------------------------------
(* Calls made by the application.                                          *)

CallRun(c, ms) ==
    /\ pc[c] = "idle"
    /\ calls < MaxCalls
    /\ calls' = calls + 1
    /\ mode' = [mode EXCEPT ![c] = "run"]
    /\ migrations' = [migrations EXCEPT ![c] = ms]
    /\ applied' = [applied EXCEPT ![c] = {}]
    /\ todo' = [todo EXCEPT ![c] = <<>>]
    /\ cur' = [cur EXCEPT ![c] = NoMigration]
    /\ pc' = [pc EXCEPT ![c] = "init"]
    /\ last' = [last EXCEPT ![c] = [kind |-> "none", exc |-> <<>>]]
    /\ log' = [log EXCEPT ![c] = <<>>]
    /\ db0' = [db0 EXCEPT ![c] = Snapshot(c)]
    /\ pre' = [pre EXCEPT ![c] = Snapshot(c)]
    /\ UNCHANGED <<db, txn, pend, exc, runCount, direct, vres>>
    /\ repeated' = (repeated \/ ~ DistinctIds(ms))

CallApply(c, m) ==
    /\ pc[c] = "idle"
    /\ calls < MaxCalls
    /\ calls' = calls + 1
    /\ mode' = [mode EXCEPT ![c] = "apply"]
    /\ migrations' = [migrations EXCEPT ![c] = <<>>]
    /\ applied' = [applied EXCEPT ![c] = {}]
    /\ todo' = [todo EXCEPT ![c] = <<>>]
    /\ cur' = [cur EXCEPT ![c] = m]
    /\ pc' = [pc EXCEPT ![c] = "begin"]
    /\ last' = [last EXCEPT ![c] = [kind |-> "none", exc |-> <<>>]]
    /\ log' = [log EXCEPT ![c] = <<>>]
    /\ db0' = [db0 EXCEPT ![c] = Snapshot(c)]
    /\ pre' = [pre EXCEPT ![c] = Snapshot(c)]
    /\ direct' = TRUE
    /\ UNCHANGED <<db, txn, pend, exc, runCount, repeated, vres>>

CallInit(c) ==
    /\ pc[c] = "idle"
    /\ mode' = [mode EXCEPT ![c] = "init"]
    /\ migrations' = [migrations EXCEPT ![c] = <<>>]
    /\ applied' = [applied EXCEPT ![c] = {}]
    /\ todo' = [todo EXCEPT ![c] = <<>>]
    /\ cur' = [cur EXCEPT ![c] = NoMigration]
    /\ pc' = [pc EXCEPT ![c] = "init"]
    /\ last' = [last EXCEPT ![c] = [kind |-> "none", exc |-> <<>>]]
    /\ log' = [log EXCEPT ![c] = <<>>]
    /\ db0' = [db0 EXCEPT ![c] = Snapshot(c)]
    /\ pre' = [pre EXCEPT ![c] = Snapshot(c)]
    /\ UNCHANGED <<db, txn, pend, exc, runCount, calls, direct, repeated, vres>>

\* The connection is borrowed: the application may have opened a transaction
\* with work of its own before it calls the engine.
CallerBegin(c) ==
    /\ pc[c] = "idle"
    /\ ~ txn[c]
    /\ txn' = [txn EXCEPT ![c] = TRUE]
    /\ pend' = [pend EXCEPT ![c] = [EmptyPend EXCEPT !.caller = TRUE]]
    /\ mode' = [mode EXCEPT ![c] = "caller"]
    /\ UNCHANGED <<db, pc, migrations, applied, todo, cur, exc, last,
                   log, db0, pre, runCount, calls, direct, repeated, vres>>

----------------------------------------------------------------------------
(* init_migrations_table, get_applied_migrations and the steps of          *)
(* run_migrations.                                                         *)

\* Variant: the statement lacks IF NOT EXISTS and is refused when the table
\* is there.
create_table(v) == IF v.tbl THEN "refused" ELSE "created"

\* CREATE TABLE IF NOT EXISTS _migrations (...): creates the table unless it
\* exists.
create_table_if_not_exists(v) == IF v.tbl THEN "exists" ELSE "created"

\* init_migrations_table: the one statement; it may also fail because the
\* store is unavailable, which raises.
InitTable(c) ==
    /\ pc[c] = "init"
    /\ \E available \in BOOLEAN :
        LET r == IF available
                 THEN create_table_if_not_exists(Visible(c))
                 ELSE "unavailable"
            ok == r \in {"created", "exists"}
            e == Exc(IF r = "refused" THEN "CatalogException"
                                      ELSE "IOException", "init", 0)
        IN /\ Logged(c, Ev("init", NoMigration, Res(ok)))
           /\ IF r = "created"
              THEN execute(c, CreateTable)
              ELSE UNCHANGED <<db, pend>>
           /\ IF ok
              THEN IF mode[c] = "run"
                   THEN /\ pc' = [pc EXCEPT ![c] = "get"]
                        /\ UNCHANGED <<last, exc>>
                   ELSE Returns(c)
              ELSE IF mode[c] = "run"
                   THEN /\ pc' = [pc EXCEPT ![c] = "run_except"]
                        /\ exc' = [exc EXCEPT ![c] = <<e>>]
                        /\ UNCHANGED last
                   ELSE Raises(c, <<e>>)
    /\ UNCHANGED <<mode, txn, migrations, applied, todo, cur, db0, pre,
                   runCount, calls, direct, repeated, vres>>

\* applied = set(self.get_applied_migrations())
GetApplied(c) ==
    /\ pc[c] = "get"
    /\ applied' = [applied EXCEPT ![c] = Range(Visible(c).rows)]
    /\ pc' = [pc EXCEPT ![c] = "validate"]
    /\ UNCHANGED <<db, mode, txn, pend, migrations, todo, cur, exc, last,
                   log, db0, pre, runCount, calls, direct, repeated, vres>>

\* self.validate_migration_order(migrations, applied), then the for loop is
\* entered over sorted(migrations).
Validate(c) ==
    /\ pc[c] = "validate"
    /\ LET ok == validate_migration_order(migrations[c], applied[c])
       IN /\ Logged(c, Ev("validate", NoMigration, Res(ok)))
          /\ IF ok
             THEN /\ todo' = [todo EXCEPT ![c] = sorted(migrations[c])]
                  /\ pc' = [pc EXCEPT ![c] = "loop"]
                  /\ UNCHANGED exc
             ELSE /\ exc' = [exc EXCEPT ![c] =
                               <<Exc("MigrationError", "validate", 0)>>]
                  /\ pc' = [pc EXCEPT ![c] = "run_except"]
                  /\ UNCHANGED todo
    /\ UNCHANGED <<db, mode, txn, pend, migrations, applied, cur, last,
                   db0, pre, runCount, calls, direct, repeated, vres>>

\* The for loop is exhausted: run_migrations returns.
LoopDone(c) ==
    /\ pc[c] = "loop"
    /\ todo[c] = <<>>
    /\ Returns(c)
    /\ UNCHANGED <<db, mode, txn, pend, migrations, applied, todo, cur,
                   log, db0, pre, runCount, calls, direct, repeated, vres>>

\* Next migration of the loop is already applied: skipped.
LoopSkip(c) ==
    /\ pc[c] = "loop"
    /\ todo[c] # <<>>
    /\ ~ not_in_applied(Head(todo[c]), applied[c])
    /\ todo' = [todo EXCEPT ![c] = Tail(@)]
    /\ UNCHANGED <<db, pc, mode, txn, pend, migrations, applied, cur, exc,
                   last, log, db0, pre, runCount, calls, direct, repeated, vres>>

\* Next migration of the loop is not applied: apply_migration is called.
LoopApply(c) ==
    /\ pc[c] = "loop"
    /\ todo[c] # <<>>
    /\ not_in_applied(Head(todo[c]), applied[c])
    /\ todo' = [todo EXCEPT ![c] = Tail(@)]
    /\ cur' = [cur EXCEPT ![c] = Head(todo[c])]
    /\ pre' = [pre EXCEPT ![c] = Snapshot(c)]
    /\ pc' = [pc EXCEPT ![c] = "begin"]
    /\ UNCHANGED <<db, mode, txn, pend, migrations, applied, exc, last,
                   log, db0, runCount, calls, direct, repeated, vres>>

\* except Exception as e: raise MigrationError("Failed to run migrations")
RunExcept(c) ==
    /\ pc[c] = "run_except"
    /\ Raises(c, run_error(exc[c]))
    /\ UNCHANGED <<db, mode, txn, pend, migrations, applied, todo, cur,
                   log, db0, pre, runCount, calls, direct, repeated, vres>>

----------------------------------------------------------------------------
(* The steps of apply_migration.                                           *)

\* self.con.begin(): DuckDB refuses to start a transaction inside one.
Begin(c) ==
    /\ pc[c] = "begin"
    /\ Logged(c, Ev("begin", cur[c], Res(~ txn[c])))
    /\ IF txn[c]
       THEN /\ RaisedInApplyTry(c, Exc("TransactionException", "begin",
                                       cur[c].id))
            /\ UNCHANGED txn
       ELSE /\ txn' = [txn EXCEPT ![c] = begin(@)]
            /\ pc' = [pc EXCEPT ![c] = "mrun"]
            /\ UNCHANGED <<exc, last>>
    /\ UNCHANGED <<db, mode, pend, migrations, applied, todo, cur, db0, pre,
                   runCount, calls, direct, repeated, vres>>

\* migration.run(self.con): the procedure issues its statements and
\* completes, or raises partway, or is interrupted partway.
MigrationRun(c) ==
    /\ pc[c] = "mrun"
    /\ \E interrupted \in BOOLEAN :
        LET m == cur[c]
            ok == ~ interrupted /\ m.run = "ok"
            e == IF interrupted
                 THEN Exc("KeyboardInterrupt", "run", m.id)
                 ELSE Exc("Exception", "run", m.id)
        IN /\ execute(c, Statements(m))
           /\ runCount' = [runCount EXCEPT ![m] = @ + 1]
           /\ Logged(c, Ev("run", m, IF interrupted THEN "interrupt" ELSE Res(ok)))
           /\ IF ok
              THEN /\ pc' = [pc EXCEPT ![c] = "insert"]
                   /\ UNCHANGED <<exc, last>>
              ELSE RaisedInApplyTry(c, e)
    /\ UNCHANGED <<mode, txn, migrations, applied, todo, cur, db0, pre,
                   calls, direct, repeated, vres>>

\* Primary-key uniqueness across connections: another connection's open
\* transaction holds an uncommitted row with this id. The database refuses
\* the second insert at once or lets it wait for the commit.
InsertConflict(c, id) ==
    \E o \in Conns \ {c} : ~ primary_key_free(id, pend[o])

\* A row pending on c has meanwhile been committed by another connection:
\* the database refuses the commit.
CommitConflict(c) ==
    \E i \in DOMAIN pend[c].rows : ~ primary_key_free(pend[c].rows[i], db)

\* self.con.execute("INSERT INTO _migrations (id) VALUES (?)", [migration.id])
Insert(c) ==
    /\ pc[c] = "insert"
    /\ \E detected \in {FALSE, InsertConflict(c, cur[c].id)} :
       LET v == Visible(c)
           id == cur[c].id
           ok == v.tbl /\ primary_key_free(id, v) /\ ~ detected
       IN /\ Logged(c, Ev("insert", cur[c], Res(ok)))
          /\ IF ok
             THEN /\ execute(c, InsertRow(id))
                  /\ pc' = [pc EXCEPT ![c] = "commit"]
                  /\ UNCHANGED <<exc, last>>
             ELSE /\ UNCHANGED <<db, pend>>
                  /\ RaisedInApplyTry(c,
                        Exc(IF v.tbl THEN "ConstraintException"
                                     ELSE "CatalogException", "insert", id))
    /\ UNCHANGED <<mode, txn, migrations, applied, todo, cur, db0, pre,
                   runCount, calls, direct, repeated, vres>>

\* self.con.commit(): makes the pending changes durable, or fails; a failed
\* commit either closes the transaction and discards its changes or leaves
\* it open for the rollback, and without an open transaction commit raises.
Commit(c) ==
    /\ pc[c] = "commit"
    /\ \E result \in {"ok", "failed_closed", "failed_open"} :
        LET outcome == IF result = "ok" /\ CommitConflict(c)
                       THEN "failed_closed" ELSE result
            ok == txn[c] /\ outcome = "ok"
        IN /\ Logged(c, Ev("commit", cur[c], Res(ok)))
           /\ IF ok
              THEN /\ db' = Add(db, pend[c])
                   /\ pend' = [pend EXCEPT ![c] = EmptyPend]
                   /\ txn' = [txn EXCEPT ![c] = FALSE]
                   /\ ApplyReturns(c)
              ELSE /\ UNCHANGED db
                   /\ pend' = [pend EXCEPT ![c] =
                                 IF txn[c] /\ outcome = "failed_closed"
                                 THEN EmptyPend ELSE @]
                   /\ txn' = [txn EXCEPT ![c] =
                                @ /\ outcome = "failed_open"]
                   /\ RaisedInApplyTry(c, Exc("TransactionException",
                                              "commit", cur[c].id))
    /\ UNCHANGED <<mode, migrations, applied, todo, cur, db0, pre,
                   runCount, calls, direct, repeated, vres>>

\* Variant: the handler undoes the record by deleting the migration's row.
delete_record(d, id) ==
    [d EXCEPT !.rows = SelectSeq(@, LAMBDA r : r # id)]

\* self.con.rollback() touches nothing that is committed.
rollback(d, id) == d

\* except Exception as e: self.con.rollback(), then raise MigrationError;
\* DuckDB's rollback raises when no transaction is open.
Rollback(c) ==
    /\ pc[c] = "rollback"
    /\ Logged(c, Ev("rollback", cur[c], Res(txn[c])))
    /\ IF txn[c]
       THEN /\ txn' = [txn EXCEPT ![c] = FALSE]
            /\ pend' = [pend EXCEPT ![c] = EmptyPend]
            /\ ApplyRaises(c, apply_error(cur[c].id, exc[c]))
       ELSE /\ UNCHANGED <<txn, pend>>
            /\ ApplyRaises(c, <<Exc("TransactionException", "rollback",
                                    cur[c].id)>> \o exc[c])
    /\ db' = rollback(db, cur[c].id)
    /\ UNCHANGED <<mode, migrations, applied, todo, cur, db0, pre,
                   runCount, calls, direct, repeated, vres>>

----------------------------------------------------------------------------
(* Specifications.                                                         *)

Init ==
    /\ db = EmptyDb
    /\ pc = [c \in Conns |-> "idle"]
    /\ mode = [c \in Conns |-> "none"]
    /\ txn = [c \in Conns |-> FALSE]
    /\ pend = [c \in Conns |-> EmptyPend]
    /\ migrations = [c \in Conns |-> <<>>]
    /\ applied = [c \in Conns |-> {}]
    /\ todo = [c \in Conns |-> <<>>]
    /\ cur = [c \in Conns |-> NoMigration]
    /\ exc = [c \in Conns |-> <<>>]
    /\ last = [c \in Conns |-> [kind |-> "none", exc |-> <<>>]]
    /\ log = [c \in Conns |-> <<>>]
    /\ db0 = [c \in Conns |-> [db |-> EmptyDb, pend |-> EmptyPend,
                               txn |-> FALSE]]
    /\ pre = [c \in Conns |-> [db |-> EmptyDb, pend |-> EmptyPend,
                               txn |-> FALSE]]
    /\ runCount = [m \in Migration |-> 0]
    /\ calls = 0
    /\ direct = FALSE
    /\ repeated = FALSE
    /\ vres = [migrations |-> <<>>, applied |-> {}, ok |-> TRUE]

\* Single writer: one connection, one engine call at a time.
Next ==
    \/ \E ms \in Candidates : CallRun("c1", ms)
    \/ \E m \in Migration : CallApply("c1", m)
    \/ CallInit("c1")
    \/ CallerBegin("c1")
    \/ InitTable("c1")
    \/ GetApplied("c1")
    \/ Validate("c1")
    \/ LoopDone("c1")
    \/ LoopSkip("c1")
    \/ LoopApply("c1")
    \/ RunExcept("c1")
    \/ Begin("c1")
    \/ MigrationRun("c1")
    \/ Insert("c1")
    \/ Commit("c1")
    \/ Rollback("c1")

Spec == Init /\ [][Next]_vars

\* A direct call of validate_migration_order(migrations, applied) with any
\* candidate collection and any applied-set.
CallValidate(ms, app) ==
    /\ vres = [migrations |-> <<>>, applied |-> {}, ok |-> TRUE]
    /\ vres' = [migrations |-> ms, applied |-> app,
                ok |-> validate_migration_order(ms, app)]
    /\ UNCHANGED <<db, pc, mode, txn, pend, migrations, applied, todo, cur,
                   exc, last, log, db0, pre, runCount, calls, direct, repeated>>

NextValidate == \E ms \in Candidates, app \in SUBSET Ids : CallValidate(ms, app)

SpecValidate == Init /\ [][NextValidate]_vars

\* Two applications, each with its own connection to the same database, call
\* run_migrations once, with collections that share an id (and repeat none
\* within themselves); their steps interleave in any order. The connections
\* are interchangeable, so the one that calls first is named "c1".
CallRunConcurrently(c, ms) ==
    /\ mode[c] = "none"
    /\ DistinctIds(ms)
    /\ c # "c1" => mode["c1"] = "run"
    /\ \A o \in Conns \ {c} :
           mode[o] = "run" =>
               Range(IdsOf(ms)) \cap Range(IdsOf(migrations[o])) # {}
    /\ CallRun(c, ms)

NextConcurrent ==
    \E c \in Conns :
        \/ \E ms \in Candidates \ {<<>>} : CallRunConcurrently(c, ms)
        \/ InitTable(c)
        \/ GetApplied(c)
        \/ Validate(c)
        \/ LoopDone(c)
        \/ LoopSkip(c)
        \/ LoopApply(c)
        \/ RunExcept(c)
        \/ Begin(c)
        \/ MigrationRun(c)
        \/ Insert(c)
        \/ Commit(c)
        \/ Rollback(c)

SpecConcurrent == Init /\ [][NextConcurrent]_vars

----------------------------------------------------------------------------
TypeOK ==
    /\ db.tbl \in BOOLEAN
    /\ \A c \in Conns : pc[c] \in {"idle", "init", "get", "validate", "loop",
                                   "run_except", "begin", "mrun", "insert",
                                   "commit", "rollback"}
    /\ calls \in 0..MaxCalls

----------------------------------------------------------------------------
(* Vocabulary of the properties.                                           *)

\* What the connection saw when the current call / apply_migration started.
StartVisible(c) == Add(db0[c].db, db0[c].pend)
PreVisible(c) == Add(pre[c].db, pre[c].pend)

Count(s, x) == Cardinality({i \in DOMAIN s : s[i] = x})

\* run_migrations has returned or raised.
RunEnded(c) == mode[c] = "run" /\ pc[c] = "idle" /\ last[c].kind # "none"

\* apply_migration has raised after migration.run raised an error: the last
\* two connection calls are the failed run and the handler's rollback.
ApplyRaisedAfterRunError(c) ==
    LET n == Len(log[c])
    IN /\ n >= 2
       /\ log[c][n].op = "rollback"
       /\ log[c][n - 1].op = "run"
       /\ log[c][n - 1].res = "error"
       /\ mode[c] \in {"run", "apply"}
       /\ pc[c] \in {"run_except", "idle"}

----------------------------------------------------------------------------
(* C1. Atomicity under failure, as stated: once apply_migration has raised  *)
(* because m.run raised, no statement of m.run has an observable effect and *)
(* _migrations holds no row for m.id.                                       *)
C1_AsStated ==
    \A c \in Conns :
        ApplyRaisedAfterRunError(c) =>
            /\ Visible(c).effects = PreVisible(c).effects
            /\ cur[c].id \notin Range(Visible(c).rows)

(* C1, amended. Once apply_migration has raised because m.run raised an     *)
(* error, the connection sees exactly the effects and exactly the rows it   *)
(* saw when apply_migration was called, nothing is pending and no           *)
(* transaction is open: the failed call adds no row for m.id, so there is   *)
(* no row for m.id unless one was recorded before the call.                 *)
C1_Atomicity ==
    \A c \in Conns :
        ApplyRaisedAfterRunError(c) =>
            /\ Visible(c).effects = PreVisible(c).effects
            /\ Visible(c).rows = PreVisible(c).rows
            /\ db.effects = pre[c].db.effects
            /\ db.rows = pre[c].db.rows
            /\ pend[c] = EmptyPend
            /\ ~ txn[c]
            /\ (cur[c].id \notin Range(PreVisible(c).rows)
                    => cur[c].id \notin Range(Visible(c).rows))

\* A failed run has been rolled back on a database that already holds a
\* committed migration.
C1_Witness ==
    /\ ApplyRaisedAfterRunError("c1")
    /\ db.effects # <<>>
    /\ cur["c1"].id \notin Range(db.rows)

(* C2. Effects and record are committed together: in every committed state *)
(* the ids whose effects are in the schema are the ids that have a row in  *)
(* _migrations, one for one and in the same commit order.                  *)
C2_EffectsIffRow ==
    /\ \A id \in Ids :
           (\E i \in DOMAIN db.effects : db.effects[i].id = id)
               <=> id \in Range(db.rows)
    /\ IdsOf(db.effects) = db.rows

\* A migration is committed and, in the current call, a record insert or a
\* commit has failed.
C2_Witness ==
    /\ db.rows # <<>>
    /\ \E i \in DOMAIN log["c1"] :
           /\ log["c1"][i].op \in {"insert", "commit"}
           /\ log["c1"][i].res = "error"

(* C3. At-most-once execution, as stated: after any number of             *)
(* run_migrations invocations, each migration's run has been invoked at    *)
(* most once in total (taken for callers that make no other engine call    *)
(* and never repeat an id within a collection).                            *)
C3_AsStated ==
    (~ direct /\ ~ repeated) => \A m \in Migration : runCount[m] <= 1

(* C3, amended. Over any number of calls each migration's run is committed *)
(* at most once, and so is each id: an execution that failed or was rolled *)
(* back may be repeated, a committed one never takes effect again.         *)
C3_CommittedOnce ==
    /\ \A m \in Migration : Count(db.effects, m) <= 1
    /\ \A id \in Ids : Count(IdsOf(db.effects), id) <= 1
    /\ \A m \in Migration : Count(db.effects, m) <= runCount[m]

\* A migration whose run was invoked twice is committed once.
C3_Witness ==
    \E m \in Migration : runCount[m] >= 2 /\ Count(db.effects, m) = 1

(* C4. Unique record row: in every reachable state _migrations holds at    *)
(* most one row per id, committed or as seen inside the open transaction.  *)
C4_UniqueRow ==
    /\ \A id \in Ids : Count(db.rows, id) <= 1
    /\ \A c \in Conns : \A id \in Ids : Count(Visible(c).rows, id) <= 1

\* run_migrations was given the same id twice, the first is recorded and the
\* insert of the second has been refused.
C4_Witness ==
    /\ mode["c1"] = "run"
    /\ \E j, k \in DOMAIN migrations["c1"] :
           j # k /\ migrations["c1"][j].id = migrations["c1"][k].id
    /\ \E i \in DOMAIN log["c1"] :
           /\ log["c1"][i].op = "insert"
           /\ log["c1"][i].res = "error"
           /\ Count(db.rows, log["c1"][i].m.id) = 1

----------------------------------------------------------------------------
\* The migrations whose run the current call has invoked, in order.
RunEvents(c) == SelectSeq(log[c], LAMBDA e : e.op = "run")
Executed(c) == [i \in DOMAIN RunEvents(c) |-> RunEvents(c)[i].m]

\* The migrations the current call has committed, in order.
CommitEvents(c) ==
    SelectSeq(log[c], LAMBDA e : e.op = "commit" /\ e.res = "ok")
Committed(c) == [i \in DOMAIN CommitEvents(c) |-> CommitEvents(c)[i].m]

ApplyOps == {"begin", "run", "insert", "commit"}

StrictlyAscending(s) == \A i, j \in DOMAIN s : i < j => s[i] < s[j]
NonDescending(s) == \A i, j \in DOMAIN s : i < j => s[i] <= s[j]

\* The ids in _migrations when the current call started.
StartIds(c) == Range(StartVisible(c).rows)

(* C5. Already-applied migrations are skipped: a run never begins, runs,   *)
(* inserts or commits a migration whose id was in _migrations when the run *)
(* started; a run that returns has executed exactly the candidates whose   *)
(* ids were not recorded and has added exactly their rows.                 *)
C5_SkipApplied ==
    \A c \in Conns :
        mode[c] = "run" =>
            /\ \A i \in DOMAIN log[c] :
                   log[c][i].op \in ApplyOps
                       => log[c][i].m.id \notin StartIds(c)
            /\ (RunEnded(c) /\ last[c].kind = "returned") =>
                   LET new == SelectSeq(migrations[c],
                                        LAMBDA m : m.id \notin StartIds(c))
                   IN /\ Range(Executed(c)) = Range(new)
                      /\ Len(Executed(c)) = Len(new)
                      /\ Range(db.rows) =
                             Range(db0[c].db.rows) \cup Range(IdsOf(new))
                      /\ Len(db.rows) = Len(db0[c].db.rows) + Len(new)

\* A run over one recorded id and one new id has returned after executing
\* the new one.
C5_Witness ==
    /\ RunEnded("c1")
    /\ last["c1"].kind = "returned"
    /\ \E i \in DOMAIN migrations["c1"] :
           migrations["c1"][i].id \in StartIds("c1")
    /\ Len(Executed("c1")) = 1

(* C6. Ascending execution within a run, as stated: for any candidate      *)
(* collection the ids a run executes are strictly ascending.               *)
C6_AsStated ==
    \A c \in Conns : mode[c] = "run" => StrictlyAscending(IdsOf(Executed(c)))

(* C6, amended. The ids a run executes never descend, and they strictly    *)
(* ascend when the ids of the candidate collection are pairwise distinct;  *)
(* with nothing recorded at the start validation does not raise and a run  *)
(* that returns has executed every candidate, in ascending order whatever  *)
(* the input order.                                                        *)
C6_Ascending ==
    \A c \in Conns :
        mode[c] = "run" =>
            /\ NonDescending(IdsOf(Executed(c)))
            /\ DistinctIds(migrations[c])
                   => StrictlyAscending(IdsOf(Executed(c)))
            /\ StartIds(c) = {} =>
                   /\ \A i \in DOMAIN log[c] :
                          log[c][i].op = "validate" => log[c][i].res = "ok"
                   /\ (RunEnded(c) /\ last[c].kind = "returned") =>
                          \A m \in Migration :
                              Count(Executed(c), m) = Count(migrations[c], m)

\* A collection given in descending id order has been executed in full.
C6_Witness ==
    /\ RunEnded("c1")
    /\ last["c1"].kind = "returned"
    /\ Len(migrations["c1"]) = 2
    /\ migrations["c1"][1].id > migrations["c1"][2].id
    /\ Len(Executed("c1")) = 2

(* C7. Halt on first failure: in a run, a connection call of               *)
(* apply_migration that does not succeed is followed by nothing but the    *)
(* handler's rollback, and the rollback is the last connection call of the *)
(* run; when the run has ended after a failed apply it has raised a        *)
(* MigrationError, the database holds what the run found plus exactly the  *)
(* migrations the run committed before the failure, and the failing        *)
(* migration has left the database as its apply_migration found it.        *)
C7_HaltOnFailure ==
    \A c \in Conns :
        mode[c] = "run" =>
            /\ \A i, j \in DOMAIN log[c] :
                   (/\ i < j
                    /\ log[c][i].op \in ApplyOps
                    /\ log[c][i].res # "ok") => log[c][j].op = "rollback"
            /\ \A i \in DOMAIN log[c] :
                   log[c][i].op = "rollback" => i = Len(log[c])
            /\ (/\ RunEnded(c)
                /\ \E i \in DOMAIN log[c] :
                       log[c][i].op \in ApplyOps /\ log[c][i].res = "error")
                   => /\ last[c].kind = "raised"
                      /\ Head(last[c].exc).type = "MigrationError"
                      /\ db.rows = db0[c].db.rows \o IdsOf(Committed(c))
                      /\ db.effects = db0[c].db.effects \o Committed(c)
                      /\ db = pre[c].db
                      /\ pend[c] = EmptyPend
                      /\ ~ txn[c]

\* A run has raised after committing one migration and failing the next.
C7_Witness ==
    /\ RunEnded("c1")
    /\ last["c1"].kind = "raised"
    /\ Len(Committed("c1")) = 1
    /\ \E i \in DOMAIN log["c1"] :
           log["c1"][i].op = "run" /\ log["c1"][i].res = "error"
    /\ db.rows = db0["c1"].db.rows \o <<Committed("c1")[1].id>>

\* Some new candidate has an id below the greatest recorded id.
OrderingViolated(ms, app) ==
    /\ app # {}
    /\ \E i \in DOMAIN ms :
           ms[i].id \notin app /\ \E a \in app : ms[i].id < a

(* C8. Ordering violation leaves the batch untouched: when a run is given  *)
(* a new candidate below the greatest recorded id, it makes no begin, run, *)
(* insert or commit, the transaction state, _migrations and the schema     *)
(* stay as the run found them, and the run raises.                         *)
C8_OrderingViolation ==
    \A c \in Conns :
        (mode[c] = "run" /\ OrderingViolated(migrations[c], StartIds(c))) =>
            /\ \A i \in DOMAIN log[c] :
                   log[c][i].op \in {"init", "validate"}
            /\ txn[c] = db0[c].txn
            /\ db = db0[c].db
            /\ pend[c] = db0[c].pend
            /\ pc[c] \in {"init", "get", "validate", "run_except", "idle"}
            /\ pc[c] = "idle" =>
                   /\ last[c].kind = "raised"
                   /\ Head(last[c].exc).type = "MigrationError"

\* A run has raised on an ordering violation.
C8_Witness ==
    /\ RunEnded("c1")
    /\ OrderingViolated(migrations["c1"], StartIds("c1"))
    /\ Len(last["c1"].exc) = 2
    /\ last["c1"].exc[2].origin = "validate"

(* C9. Validation decision: validate_migration_order(M, A) returns exactly *)
(* when A is empty or every candidate whose id is not in A has an id not   *)
(* less than the greatest id of A; candidates whose ids are all in A never *)
(* make it raise.                                                          *)
C9_ValidationDecision ==
    LET M == vres.migrations
        A == vres.applied
    IN /\ vres.ok <=>
              \/ A = {}
              \/ \A i \in DOMAIN M :
                     M[i].id \notin A => \A a \in A : ~ (M[i].id < a)
       /\ (\A i \in DOMAIN M : M[i].id \in A) => vres.ok

\* Validation has accepted a collection holding a recorded id below the
\* greatest recorded id next to a new id.
C9_Witness ==
    /\ vres.ok
    /\ \E i \in DOMAIN vres.migrations :
           /\ vres.migrations[i].id \in vres.applied
           /\ \E a \in vres.applied : vres.migrations[i].id < a
    /\ \E j \in DOMAIN vres.migrations :
           vres.migrations[j].id \notin vres.applied

\* The connection calls of the current run that raised an error, the
\* handler's rollback aside.
Failed(c) ==
    {i \in DOMAIN log[c] : log[c][i].res = "error" /\ log[c][i].op # "rollback"}

(* C10. Failure propagation: a run in which a connection call or the       *)
(* ordering check raised an error ends by raising one run-level            *)
(* MigrationError whose chain ends in the originating error; for a failed  *)
(* procedure or record insert the chain is run-level error, apply-level    *)
(* MigrationError with the failing id, cause; a run that returns has had   *)
(* no failure.                                                             *)
C10_FailurePropagation ==
    \A c \in Conns :
        RunEnded(c) =>
            LET chain == last[c].exc
                n == Len(chain)
                top == Exc("MigrationError", "run_migrations", 0)
            IN /\ \A i \in Failed(c) :
                      /\ last[c].kind = "raised"
                      /\ n >= 2
                      /\ chain[1] = top
                      /\ \A k \in 2..n : chain[k] # top
                      /\ chain[n].origin = log[c][i].op
                      /\ log[c][i].op = "validate" =>
                             chain = <<top, Exc("MigrationError", "validate", 0)>>
                      /\ log[c][i].op = "init" =>
                             chain = <<top, Exc("IOException", "init", 0)>>
                      /\ log[c][i].op \in {"run", "insert"} =>
                             /\ n = 3
                             /\ chain[2] = Exc("MigrationError", "apply",
                                               log[c][i].m.id)
                             /\ chain[3].id = log[c][i].m.id
                             /\ chain[3].type # "MigrationError"
               /\ last[c].kind = "returned" =>
                      \A i \in DOMAIN log[c] : log[c][i].res = "ok"

\* A run has raised the three-level chain of a failed procedure.
C10_Witness ==
    /\ RunEnded("c1")
    /\ Len(last["c1"].exc) = 3
    /\ last["c1"].exc[3].origin = "run"
    /\ last["c1"].exc[2].id = last["c1"].exc[3].id

----------------------------------------------------------------------------
(* C11 .. C19.                                                             *)

\* The call on connection c is over (it returned or an exception left it).
CallOver(c) == pc[c] = "idle" /\ mode[c] \in {"run", "apply"}

\* The positions of c's log where migration.run was interrupted.
Interrupted(c) ==
    {i \in DOMAIN log[c] :
        log[c][i].op = "run" /\ log[c][i].res = "interrupt"}

\* C11 (as stated): when migration.run is interrupted inside
\* apply_migration, the rollback step is still invoked, so once the call is
\* over no transaction begun by the engine is open with partial effects of
\* the interrupted migration.
C11_AsStated ==
    \A c \in Conns :
        \A i \in Interrupted(c) :
            /\ i < Len(log[c]) => log[c][i + 1].op = "rollback"
            /\ CallOver(c) =>
                   /\ i < Len(log[c])
                   /\ ~ txn[c]
                   /\ log[c][i].m \notin Range(pend[c].effects)

\* C12: init_migrations_table, called in any state where _migrations
\* already exists, is not refused because of the table (the only error it
\* can raise is the store being unavailable), creates nothing and changes
\* no row, committed or pending; in every state it leaves the rows as they
\* are and the table in existence when it succeeds.
C12_IdempotentInit ==
    [][\A c \in Conns :
         (pc[c] = "init" /\ pc'[c] # "init") =>
            LET e == exc'[c] \o last'[c].exc
                ok == log'[c][Len(log'[c])].res = "ok"
            IN /\ db'.rows = db.rows
               /\ pend'[c].rows = pend[c].rows
               /\ ok => Visible(c)'.tbl
               /\ Visible(c).tbl =>
                      /\ db' = db
                      /\ pend' = pend
                      /\ txn' = txn
                      /\ ~ ok => e = <<Exc("IOException", "init", 0)>>]_vars

\* init_migrations_table has been called on its own, and has returned, on a
\* database that had the table and a recorded migration.
C12_Witness ==
    /\ mode["c1"] = "init"
    /\ pc["c1"] = "idle"
    /\ last["c1"].kind = "returned"
    /\ db0["c1"].db.tbl
    /\ db0["c1"].db.rows # <<>>
    /\ db = db0["c1"].db

\* s is an initial part of t.
IsPrefix(s, t) == Len(s) <= Len(t) /\ SubSeq(t, 1, Len(s)) = s

\* C13: no step of any engine operation, succeeding or failing, updates or
\* deletes a committed row of _migrations (the committed rows only get
\* longer at the end), and the steps of get_applied_migrations and
\* validate_migration_order change nothing in the database.
C13_InsertOnly ==
    [][/\ IsPrefix(db.rows, db'.rows)
       /\ \A c \in Conns :
            (pc[c] \in {"get", "validate"} /\ pc'[c] # pc[c]) =>
                /\ db' = db
                /\ pend' = pend
                /\ txn' = txn]_vars

\* A run that found a recorded migration has read and validated, committed
\* another one and then failed and rolled back.
C13_Witness ==
    /\ CallOver("c1")
    /\ last["c1"].kind = "raised"
    /\ db0["c1"].db.rows # <<>>
    /\ Len(db.rows) > Len(db0["c1"].db.rows)
    /\ \E i \in DOMAIN log["c1"] :
          log["c1"][i].op = "rollback" /\ log["c1"][i].res = "ok"

\* An apply_migration call of c has logged its begin and is not over.
ApplyInProgress(c) == pc[c] \in {"mrun", "insert", "commit", "rollback"}

\* The log positions of the apply_migration call that begins at position i:
\* up to the next begin, or to the end of the log.
ApplySegment(L, i) ==
    {k \in i..Len(L) : \A j \in (i + 1)..k : L[j].op # "begin"}

\* The positions of a segment where the call commits or rolls back.
Endings(L, S) ==
    {k \in S : \/ L[k].op = "commit" /\ L[k].res = "ok"
               \/ L[k].op = "rollback"}

\* begin precedes the procedure, the insert follows a procedure that
\* completed, the commit follows an insert that succeeded.
StepOrder(L) ==
    \A i \in DOMAIN L :
        /\ L[i].op = "run" =>
               i > 1 /\ L[i - 1] = Ev("begin", L[i].m, "ok")
        /\ L[i].op = "insert" =>
               i > 1 /\ L[i - 1] = Ev("run", L[i].m, "ok")
        /\ L[i].op = "commit" =>
               i > 1 /\ L[i - 1] = Ev("insert", L[i].m, "ok")

\* Every apply_migration call that is over ended with exactly one of a
\* successful commit or a rollback, as its last connection call.
OneEnding(c) ==
    LET L == log[c]
    IN \A i \in DOMAIN L :
         L[i].op = "begin" =>
            LET S == ApplySegment(L, i)
                e == max(S)
            IN (e < Len(L) \/ ~ ApplyInProgress(c)) =>
                   Endings(L, S) = {e}

\* C14 (as stated): in every apply_migration call begin precedes the
\* procedure, the insert is issued only after the procedure completed, the
\* commit only after the insert succeeded, and the call ends with exactly
\* one of a successful commit or a rollback.
C14_AsStated ==
    \A c \in Conns : StepOrder(log[c]) /\ OneEnding(c)

\* The positions of c's log where apply_migration's own begin() failed.
BeginFailed(c) ==
    {i \in DOMAIN log[c] :
        log[c][i].op = "begin" /\ log[c][i].res = "error"}

\* C15 (as stated): apply_migration invokes rollback only after its own
\* begin() succeeded; when begin() fails no rollback is issued and the
\* transaction state the caller had pending on the connection is as the
\* call found it.
C15_AsStated ==
    \A c \in Conns :
        LET L == log[c]
        IN /\ \A i \in DOMAIN L :
                L[i].op = "rollback" =>
                    \E j \in 1..(i - 1) :
                        /\ L[j] = Ev("begin", L[i].m, "ok")
                        /\ i \in ApplySegment(L, j)
           /\ (BeginFailed(c) # {} /\ (CallOver(c) \/ pc[c] = "run_except")) =>
                  /\ txn[c] = pre[c].txn
                  /\ pend[c] = pre[c].pend

\* C16: as long as the single writer has only ever called run_migrations
\* (any number of times, on any collections, failing runs and interrupted
\* runs included), the ids in _migrations, in the order they were
\* committed, are strictly ascending, and so are they together with the
\* row an open apply_migration has pending.
C16_MonotonicCommits ==
    ~ direct =>
        /\ StrictlyAscending(db.rows)
        /\ \A c \in Conns : StrictlyAscending(Visible(c).rows)

\* Two runs, no direct apply: the second run found a recorded id, committed
\* another one and then failed.
C16_Witness ==
    /\ ~ direct
    /\ calls = 2
    /\ RunEnded("c1")
    /\ last["c1"].kind = "raised"
    /\ db0["c1"].db.rows # <<>>
    /\ Len(db.rows) > Len(db0["c1"].db.rows)

\* C17: whenever run_migrations has returned without raising, the id of
\* every migration of the candidate collection is recorded, committed, in
\* _migrations, each once, so no candidate is left unapplied below the
\* greatest applied id.
C17_SuccessMeansMigrated ==
    \A c \in Conns :
        (RunEnded(c) /\ last[c].kind = "returned") =>
            /\ \A i \in DOMAIN migrations[c] :
                   Count(db.rows, migrations[c][i].id) = 1
            /\ ~ \E i \in DOMAIN migrations[c] :
                   /\ migrations[c][i].id \notin Range(db.rows)
                   /\ migrations[c][i].id < max(Range(db.rows) \cup {0})

\* A run over two candidates has returned after committing both.
C17_Witness ==
    /\ RunEnded("c1")
    /\ last["c1"].kind = "returned"
    /\ Len(migrations["c1"]) = 2
    /\ Len(Committed("c1")) = 2

\* The run of c is over, its collection holds id d at least twice, d was not
\* recorded when the run started, and no connection call of the run failed
\* except, possibly, an insert of d (and the rollback after it): the
\* procedures completed, the store and the commits worked.
DuplicateRun(c, d) ==
    /\ RunEnded(c)
    /\ Count(IdsOf(migrations[c]), d) >= 2
    /\ d \notin StartIds(c)
    /\ \A i \in DOMAIN log[c] :
           log[c][i].res # "ok" =>
               /\ log[c][i].m.id = d
               /\ log[c][i].op \in {"insert", "rollback"}

\* C18: a run over a collection with two migrations of the same unapplied
\* id applies and commits the first, invokes the second's procedure, the
\* second's insert fails on the primary key and its effects are rolled
\* back, and the run raises the apply failure; afterwards _migrations has
\* exactly one row for the id, the effects of one application of it persist
\* and nothing is pending.
C18_DuplicateIds ==
    \A c \in Conns : \A d \in Ids :
        DuplicateRun(c, d) =>
            LET L == SelectSeq(log[c], LAMBDA e : e.m.id = d)
                a == L[1].m
                b == L[5].m
            IN /\ Len(L) = 8
               /\ L = <<Ev("begin", a, "ok"), Ev("run", a, "ok"),
                        Ev("insert", a, "ok"), Ev("commit", a, "ok"),
                        Ev("begin", b, "ok"), Ev("run", b, "ok"),
                        Ev("insert", b, "error"), Ev("rollback", b, "ok")>>
               /\ log[c][Len(log[c])] = L[8]
               /\ a.id = d /\ b.id = d
               /\ last[c].kind = "raised"
               /\ last[c].exc = <<Exc("MigrationError", "run_migrations", 0),
                                  Exc("MigrationError", "apply", d),
                                  Exc("ConstraintException", "insert", d)>>
               /\ Count(db.rows, d) = 1
               /\ SelectSeq(db.effects, LAMBDA m : m.id = d) = <<a>>
               /\ db.rows = db0[c].db.rows \o IdsOf(Committed(c))
               /\ ~ txn[c]
               /\ pend[c] = EmptyPend

\* A run over two migrations of one unapplied id has ended after the second
\* one's insert failed.
C18_Witness ==
    \E d \in Ids :
        /\ DuplicateRun("c1", d)
        /\ Len(migrations["c1"]) = 2
        /\ \E i \in DOMAIN log["c1"] :
               log["c1"][i] = Ev("insert", migrations["c1"][2], "error")

\* The run on connection c has committed a migration with this id.
CommittedId(c, id) ==
    \E i \in DOMAIN log[c] :
        /\ log[c][i].op = "commit"
        /\ log[c][i].res = "ok"
        /\ log[c][i].m.id = id

\* The transaction of c's run for this id has tried to record the id.
TriedToRecord(c, id) ==
    \E i \in DOMAIN log[c] :
        log[c][i].op = "insert" /\ log[c][i].m.id = id

\* c's apply_migration of this id is over (it is not between its insert
\* and the end of its handler).
ApplyOfIdOver(c, id) ==
    ~ (pc[c] \in {"insert", "commit", "rollback"} /\ cur[c].id = id)

\* C19: two run_migrations calls on separate connections, interleaved step
\* by step over overlapping collections: no id is recorded twice and no
\* migration's effects are committed twice (the committed effects are those
\* of the recorded ids, once each); for each id at most one connection's
\* transaction commits, and a transaction that tried to record the id and
\* did not commit has been rolled back and its run fails with a
\* MigrationError.
C19_InterleavedRuns ==
    /\ \A id \in Ids : Count(db.rows, id) <= 1
    /\ IdsOf(db.effects) = db.rows
    /\ \A id \in Ids :
           Cardinality({c \in Conns : CommittedId(c, id)}) <= 1
    /\ \A c \in Conns : \A id \in Ids :
           (/\ TriedToRecord(c, id)
            /\ ApplyOfIdOver(c, id)
            /\ ~ CommittedId(c, id)) =>
               /\ \E i \in DOMAIN log[c] :
                      log[c][i].op = "rollback" /\ log[c][i].m.id = id
               /\ id \notin Range(pend[c].rows)
               /\ id \notin Range(IdsOf(pend[c].effects))
               /\ pc[c] \in {"run_except", "idle"}
               /\ pc[c] = "idle" =>
                      /\ last[c].kind = "raised"
                      /\ Head(last[c].exc) =
                             Exc("MigrationError", "run_migrations", 0)

\* Both runs are over, both transactions tried to record the same id, one
\* committed and the other one's run raised.
C19_Witness ==
    \E id \in Ids :
        /\ RunEnded("c1") /\ RunEnded("c2")
        /\ TriedToRecord("c1", id) /\ TriedToRecord("c2", id)
        /\ CommittedId("c2", id)
        /\ last["c1"].kind = "raised"

====
